---- MODULE Spec2Model ----
(***************************************************************************)
(* slidesplit: anchor clustering of a frame sequence (cluster_frames),     *)
(* stabilisation of the partition (merge_short_clusters: short-cluster     *)
(* fixed-point loop, then micro-split sweep) and the parallel writer of    *)
(* the representatives (write_output_slides).                              *)
(*                                                                         *)
(* Frame positions are the array indices 0..n-1 of the source.  A cluster  *)
(* is a TLA+ sequence of positions, so the source's c[0] is c[1] here and  *)
(* c.last() is c[Len(c)].  The scan pointer i and the slide numbers are    *)
(* 0-based as in the source.  A fingerprint (ImageHash) is the set of the  *)
(* indices of its 1-bits; min_stable_seconds is counted in half seconds,   *)
(* and min_len is the value computed from it on entry of the merge.        *)
(* scans, short_merges and micro_merges are history variables: the number  *)
(* of runs of the loop body and of merges of either pass so far.           *)
(***************************************************************************)
EXTENDS Integers, Sequences, FiniteSets

VARIABLES frames, threshold, min_len,
          clusters, pc, i, changed, tasks, out_dir, result,
          scans, short_merges, micro_merges

vars == <<frames, threshold, min_len,
          clusters, pc, i, changed, tasks, out_dir, result,
          scans, short_merges, micro_merges>>

\* ---------------------------------------------------------------- bounds
MaxLen == 5
MaxWriteLen == 3
MaxBits == 3
MaxThreshold == 2
MaxHalfSeconds == 2

\* the sampling rates of the runs: 1 and the default of --fps, 2
Rates == {1, 2}

\* ------------------------------------------------------------ fingerprints
\* the hashes the inputs are drawn from: k low bits set, k = 0..MaxBits
Fingerprints == { 0 .. k - 1 : k \in 0 .. MaxBits }

\* ImageHash::dist: the Hamming distance of two hashes
dist(a, b) == Cardinality((a \ b) \cup (b \ a))

Bit(b, j) == (b \div (2 ^ j)) % 2

\* u ^ (i as u64) on one byte of u
ByteXor(b, n) ==
    LET x(j) == (Bit(b, j) + Bit(n, j)) % 2
    IN  x(0) + 2 * x(1) + 4 * x(2) + 8 * x(3)
        + 16 * x(4) + 32 * x(5) + 64 * x(6) + 128 * x(7)

\* u ^ (i as u64) for 0 <= i < 256; u is given by its eight big-endian bytes
XorLow(bytes, n) == [bytes EXCEPT ![8] = ByteXor(@, n)]

\* h64: the 64-bit hash made of the big-endian bytes of u
h64(bytes) ==
    { 8 * (k - 1) + j : k \in 1 .. 8, j \in 0 .. 7 } \cap
    { m \in 0 .. 63 : Bit(bytes[(m \div 8) + 1], m % 8) = 1 }

Rep8(b) == <<b, b, b, b, b, b, b, b>>

\* frames of the test clusters_split_when_distance_exceeds_threshold
CleanCutFrames ==
    [p \in 1 .. 10 |->
        IF p - 1 < 5 THEN h64(XorLow(Rep8(170), p - 1))
                     ELSE h64(XorLow(Rep8(85), p - 1))]

\* frames of the test merge_short_clusters_stabilizes_crossfade_blips
CrossfadeFrames ==
    [p \in 1 .. 19 |->
        IF p - 1 < 8 THEN h64(XorLow(Rep8(0), p - 1))
        ELSE IF p - 1 < 11 THEN h64(XorLow(Rep8(15), p - 1))
        ELSE h64(XorLow(Rep8(255), p - 1))]

TestThreshold == 8

\* min_stable_seconds = 1.5 and fps = 2.0 of the crossfade test
TestHalfSeconds == 3
TestFps == 2

\* ------------------------------------------------------------ cluster_frames
ReferencePrevious(k, anchor) == k - 1

\* the frame that frame k is compared with: frames[i].hash.dist(anchor)
Reference(k, anchor) == anchor

RECURSIVE ClusterFrom(_, _, _, _, _, _)
\* the loop "for i in 1..frames.len()": k is the loop index, cur the open
\* cluster, anchor the position of its first frame, acc the closed clusters
ClusterFrom(fr, th, k, cur, anchor, acc) ==
    IF k >= Len(fr) THEN Append(acc, cur)
    ELSE IF dist(fr[k + 1], fr[Reference(k, anchor) + 1]) <= th
         THEN ClusterFrom(fr, th, k + 1, Append(cur, k), anchor, acc)
         ELSE ClusterFrom(fr, th, k + 1, <<k>>, k, Append(acc, cur))

cluster_frames(fr, th) ==
    IF Len(fr) = 0 THEN << >> ELSE ClusterFrom(fr, th, 1, <<0>>, 0, << >>)

\* ------------------------------------------------------ merge_short_clusters
\* ceil(min_stable_seconds * fps), min_stable_seconds = halves / 2
MinLen(halves, f) == (halves * f + 1) \div 2

None == -1

First(c) == c[1]
Last(c) == c[Len(c)]
Hash(fr, p) == fr[p + 1]

RemoveAtKeeps(cl, k) == cl

\* Vec::remove(k)
RemoveAt(cl, k) == [j \in 1 .. Len(cl) - 1 |-> IF j <= k THEN cl[j] ELSE cl[j + 1]]

IsShortOffByOne(c, ml) == Len(c) < ml - 1

\* clusters[i].len() < min_len
IsShort(c, ml) == Len(c) < ml

d_prev(cl, fr, k) == dist(Hash(fr, First(cl[k + 1])), Hash(fr, Last(cl[k])))
d_next(cl, fr, k) == dist(Hash(fr, Last(cl[k + 1])), Hash(fr, First(cl[k + 2])))

PreferPrevStrict(dp, dn) == dp < dn

\* if d_prev <= d_next
PreferPrev(dp, dn) == dp <= dn

merge_target(cl, fr, k) ==
    IF Len(cl) = 1 THEN None
    ELSE IF k = 0 THEN 1
    ELSE IF k = Len(cl) - 1 THEN k - 1
    ELSE IF PreferPrev(d_prev(cl, fr, k), d_next(cl, fr, k)) THEN k - 1
    ELSE k + 1

AppendIndexUnshifted(t, k) == t

\* index of the target after clusters.remove(i)
AppendIndex(t, k) == IF t < k THEN t ELSE t - 1

ScanPointerNotReset(j, k) == k + 1

\* i = t; / i = t - 1; continue: from pointer k the scan goes on at the
\* merged cluster j
ScanPointerAfterMerge(j, k) == j

AbsorbIntoFirst(cl, k, j) ==
    LET rest == RemoveAt(cl, k)
    IN  [rest EXCEPT ![1] = rest[1] \o cl[k + 1]]

AbsorbDropsTake(cl, k, j) == RemoveAt(cl, k)

\* take = clusters.remove(i); clusters[..].append(&mut take)
Absorb(cl, k, j) ==
    LET take == cl[k + 1]
        rest == RemoveAt(cl, k)
    IN  [rest EXCEPT ![j + 1] = @ \o take]

\* every position stored in the partition indexes frames
PositionsInBounds(cl, fr) ==
    \A c \in 1 .. Len(cl) : \A p \in 1 .. Len(cl[c]) : cl[c][p] \in 0 .. Len(fr) - 1

\* the indexing of one step of the short-cluster scan panics
ShortStepPanics(cl, fr, ml, k) ==
    /\ IsShort(cl[k + 1], ml)
    /\ Len(cl) # 1
    /\ IF /\ k # 0
          /\ k # Len(cl) - 1
          /\ \/ cl[k + 1] = << >>
             \/ cl[k] = << >>
             \/ cl[k + 2] = << >>
             \/ ~ PositionsInBounds(cl, fr)
       THEN TRUE
       ELSE AppendIndex(merge_target(cl, fr, k), k) \notin 0 .. Len(cl) - 2

\* the indexing of one step of the micro-split sweep panics
MicroStepPanics(cl, fr, k) ==
    \/ cl[k + 1] = << >>
    \/ cl[k + 2] = << >>
    \/ ~ PositionsInBounds(cl, fr)

MicroClose(cl, fr, th, k) ==
    dist(Hash(fr, Last(cl[k + 1])), Hash(fr, First(cl[k + 2]))) <= th \div 2

\* tail = clusters.remove(i + 1); clusters[i].append(&mut tail)
MicroAbsorb(cl, k) ==
    [j \in 1 .. Len(cl) - 1 |->
        IF j < k + 1 THEN cl[j]
        ELSE IF j = k + 1 THEN cl[k + 1] \o cl[k + 2]
        ELSE cl[j + 1]]

MicroPointerSkips(k) == k + 1

\* the scan pointer after a micro-merge
MicroPointerAfterMerge(k) == k

\* one iteration of the sweep "while i + 1 < clusters.len()"
MicroStep(cl, fr, th, k) ==
    IF MicroClose(cl, fr, th, k)
    THEN [cl |-> MicroAbsorb(cl, k), i |-> MicroPointerAfterMerge(k)]
    ELSE [cl |-> cl, i |-> k + 1]

RECURSIVE MicroSweepFrom(_, _, _, _)
MicroSweepFrom(cl, fr, th, k) ==
    IF k + 1 < Len(cl)
    THEN LET s == MicroStep(cl, fr, th, k)
         IN  MicroSweepFrom(s.cl, fr, th, s.i)
    ELSE cl

\* the whole second pass, from i = 0
MicroSweep(cl, fr, th) == MicroSweepFrom(cl, fr, th, 0)

\* ------------------------------------------------------- write_output_slides
\* the decimal digits of n, at least two of them: format!("{:02}", n)
RECURSIVE Digits(_)
Digits(n) == IF n < 10 THEN <<n>> ELSE Append(Digits(n \div 10), n % 10)
OutName(slide_num) ==
    IF slide_num < 10 THEN <<0, slide_num>> ELSE Digits(slide_num)

RepresentativeFirst(c) == c[1]

\* cluster[cluster.len() / 2]
Representative(c) == c[(Len(c) \div 2) + 1]

\* an Err has been produced: try_reduce may stop feeding the map closure
Full == \E k \in 1 .. Len(tasks) : tasks[k].status = "err"

\* -------------------------------------------------------------------- Init
Inputs ==
    UNION { [1 .. n -> Fingerprints] : n \in 0 .. MaxLen }

Rest ==
    /\ clusters = << >>
    /\ pc = "start"
    /\ i = 0
    /\ changed = FALSE
    /\ tasks = << >>
    /\ out_dir = {}
    /\ result = "none"
    /\ scans = 0
    /\ short_merges = 0
    /\ micro_merges = 0

Init ==
    /\ \/ /\ frames \in Inputs
          /\ threshold \in 0 .. MaxThreshold
          /\ min_len \in { MinLen(min_stable_halves, fps) :
                              min_stable_halves \in 0 .. MaxHalfSeconds, fps \in Rates }
       \/ /\ frames \in {CleanCutFrames, CrossfadeFrames}
          /\ threshold = TestThreshold
          /\ min_len = MinLen(TestHalfSeconds, TestFps)
    /\ Rest

\* the inputs of the runs that go on to write the slides
InitWrite ==
    /\ frames \in { fr \in Inputs : Len(fr) <= MaxWriteLen }
    /\ threshold \in 0 .. MaxThreshold
    /\ min_len \in { MinLen(min_stable_halves, fps) :
                        min_stable_halves \in 0 .. MaxHalfSeconds, fps \in Rates }
    /\ Rest

\* ----------------------------------------------------------------- actions
\* let mut clusters = cluster_frames(&frames, threshold)
ClusterFrames ==
    /\ pc = "start"
    /\ clusters' = cluster_frames(frames, threshold)
    /\ pc' = "clustered"
    /\ UNCHANGED <<frames, threshold, min_len,
                   i, changed, tasks, out_dir, result>>
    /\ UNCHANGED <<scans, short_merges, micro_merges>>

\* merge_short_clusters is entered: min_len is computed and the loop body
\* starts: let mut changed = false; let mut i = 0;
LoopBegin ==
    /\ pc = "clustered"
    /\ changed' = FALSE
    /\ i' = 0
    /\ pc' = "scan"
    /\ UNCHANGED <<frames, threshold, min_len,
                   clusters, tasks, out_dir, result>>
    /\ scans' = scans + 1
    /\ UNCHANGED <<short_merges, micro_merges>>

\* a short cluster with a merge target is folded into it (an index out of
\* bounds or an unwrap of None on the way panics)
ShortMerge ==
    /\ pc = "scan"
    /\ i < Len(clusters)
    /\ IsShort(clusters[i + 1], min_len)
    /\ \/ ShortStepPanics(clusters, frames, min_len, i)
       \/ merge_target(clusters, frames, i) # None
    /\ IF ShortStepPanics(clusters, frames, min_len, i)
       THEN /\ pc' = "panic"
            /\ UNCHANGED <<clusters, i, changed>>
       ELSE LET t == merge_target(clusters, frames, i)
                j == AppendIndex(t, i)
            IN  /\ clusters' = Absorb(clusters, i, j)
                /\ i' = ScanPointerAfterMerge(j, i)
                /\ changed' = TRUE
                /\ pc' = pc
    /\ short_merges' = IF ShortStepPanics(clusters, frames, min_len, i)
                       THEN short_merges ELSE short_merges + 1
    /\ UNCHANGED <<scans, micro_merges>>
    /\ UNCHANGED <<frames, threshold, min_len,
                   tasks, out_dir, result>>

\* the cluster is long enough, or it is the only one: i += 1
ScanAdvance ==
    /\ pc = "scan"
    /\ i < Len(clusters)
    /\ \/ ~ IsShort(clusters[i + 1], min_len)
       \/ /\ ~ ShortStepPanics(clusters, frames, min_len, i)
          /\ merge_target(clusters, frames, i) = None
    /\ i' = i + 1
    /\ UNCHANGED <<frames, threshold, min_len,
                   clusters, pc, changed, tasks, out_dir, result>>
    /\ UNCHANGED <<scans, short_merges, micro_merges>>

\* end of a scan that merged: the loop body runs again, from
\* let mut changed = false; let mut i = 0;
LoopRepeat ==
    /\ pc = "scan"
    /\ ~ (i < Len(clusters))
    /\ changed
    /\ changed' = FALSE
    /\ i' = 0
    /\ scans' = scans + 1
    /\ UNCHANGED <<frames, threshold, min_len,
                   clusters, pc, tasks, out_dir, result>>
    /\ UNCHANGED <<short_merges, micro_merges>>

\* end of a scan without a merge: break; let mut i = 0;
LoopExit ==
    /\ pc = "scan"
    /\ ~ (i < Len(clusters))
    /\ ~ changed
    /\ i' = 0
    /\ pc' = "micro"
    /\ UNCHANGED <<frames, threshold, min_len,
                   clusters, changed, tasks, out_dir, result>>
    /\ UNCHANGED <<scans, short_merges, micro_merges>>

\* the touching frames are close: cluster i + 1 is folded into cluster i
\* (an empty cluster here makes last().unwrap() or [0] panic)
MicroMerge ==
    /\ pc = "micro"
    /\ i + 1 < Len(clusters)
    /\ \/ MicroStepPanics(clusters, frames, i)
       \/ MicroClose(clusters, frames, threshold, i)
    /\ IF MicroStepPanics(clusters, frames, i)
       THEN /\ pc' = "panic"
            /\ UNCHANGED <<clusters, i>>
       ELSE /\ clusters' = MicroStep(clusters, frames, threshold, i).cl
            /\ i' = MicroStep(clusters, frames, threshold, i).i
            /\ pc' = pc
    /\ micro_merges' = IF MicroStepPanics(clusters, frames, i)
                       THEN micro_merges ELSE micro_merges + 1
    /\ UNCHANGED <<scans, short_merges>>
    /\ UNCHANGED <<frames, threshold, min_len,
                   changed, tasks, out_dir, result>>

\* the touching frames differ: i += 1
MicroAdvance ==
    /\ pc = "micro"
    /\ i + 1 < Len(clusters)
    /\ ~ MicroStepPanics(clusters, frames, i)
    /\ ~ MicroClose(clusters, frames, threshold, i)
    /\ clusters' = MicroStep(clusters, frames, threshold, i).cl
    /\ i' = MicroStep(clusters, frames, threshold, i).i
    /\ UNCHANGED <<frames, threshold, min_len,
                   pc, changed, tasks, out_dir, result>>
    /\ UNCHANGED <<scans, short_merges, micro_merges>>

\* merge_short_clusters returns
MergeReturn ==
    /\ pc = "micro"
    /\ ~ (i + 1 < Len(clusters))
    /\ pc' = "merged"
    /\ UNCHANGED <<frames, threshold, min_len,
                   clusters, i, changed, tasks, out_dir, result>>
    /\ UNCHANGED <<scans, short_merges, micro_merges>>

\* process_video calls write_output_slides (it has returned Err before the
\* clustering when no frame was extracted): one task per cluster
WriteStart ==
    /\ pc = "merged"
    /\ Len(frames) > 0
    /\ tasks' = [k \in 1 .. Len(clusters) |-> [status |-> "pending", rep |-> None]]
    /\ pc' = "writing"
    /\ UNCHANGED <<frames, threshold, min_len,
                   clusters, i, changed, out_dir, result>>
    /\ UNCHANGED <<scans, short_merges, micro_merges>>

\* the map closure runs on cluster slide_num; fs::copy succeeds or fails
WriteTask(slide_num, copy_ok) ==
    /\ pc = "writing"
    /\ slide_num \in 0 .. Len(tasks) - 1
    /\ tasks[slide_num + 1].status = "pending"
    /\ LET cluster == clusters[slide_num + 1]
       IN  IF cluster = << >>
           THEN /\ tasks' = [tasks EXCEPT ![slide_num + 1].status = "empty"]
                /\ UNCHANGED out_dir
           ELSE IF copy_ok
           THEN /\ tasks' = [tasks EXCEPT ![slide_num + 1] =
                               [status |-> "ok", rep |-> Representative(cluster)]]
                /\ out_dir' = out_dir \cup
                       { [name |-> OutName(slide_num), slide |-> slide_num,
                          rep |-> Representative(cluster)] }
           ELSE /\ tasks' = [tasks EXCEPT ![slide_num + 1] =
                               [status |-> "err", rep |-> Representative(cluster)]]
                /\ UNCHANGED out_dir
    /\ UNCHANGED <<frames, threshold, min_len,
                   clusters, pc, i, changed, result>>
    /\ UNCHANGED <<scans, short_merges, micro_merges>>

\* try_reduce has seen an Err and drops a cluster whose closure has not run
WriteSkip(slide_num) ==
    /\ pc = "writing"
    /\ slide_num \in 0 .. Len(tasks) - 1
    /\ tasks[slide_num + 1].status = "pending"
    /\ Full
    /\ tasks' = [tasks EXCEPT ![slide_num + 1].status = "skipped"]
    /\ UNCHANGED <<frames, threshold, min_len,
                   clusters, pc, i, changed, out_dir, result>>
    /\ UNCHANGED <<scans, short_merges, micro_merges>>

\* try_reduce(..)? and the wrote == 0 check
WriteFinish ==
    /\ pc = "writing"
    /\ \A k \in 1 .. Len(tasks) : tasks[k].status # "pending"
    /\ result' = IF Full THEN "Err"
                 ELSE IF Cardinality({k \in 1 .. Len(tasks) : tasks[k].status = "ok"}) = 0
                      THEN "Err"
                      ELSE "Ok"
    /\ pc' = "done"
    /\ UNCHANGED <<frames, threshold, min_len,
                   clusters, i, changed, tasks, out_dir>>
    /\ UNCHANGED <<scans, short_merges, micro_merges>>

Next ==
    \/ ClusterFrames
    \/ LoopBegin
    \/ ShortMerge
    \/ ScanAdvance
    \/ LoopRepeat
    \/ LoopExit
    \/ MicroMerge
    \/ MicroAdvance
    \/ MergeReturn

\* cluster_frames and merge_short_clusters, as the library is called
Spec == Init /\ [][Next]_vars

NextWrite ==
    \/ Next
    \/ WriteStart
    \/ \E slide_num \in 0 .. Len(clusters) - 1, copy_ok \in BOOLEAN :
           WriteTask(slide_num, copy_ok)
    \/ \E slide_num \in 0 .. Len(clusters) - 1 : WriteSkip(slide_num)
    \/ WriteFinish

\* process_video: the library calls, then write_output_slides
SpecWrite == InitWrite /\ [][NextWrite]_vars
\* ------------------------------------------------------------- properties
Range(c) == { c[k] : k \in 1 .. Len(c) }

\* the number of places of the partition
RECURSIVE Places(_)
Places(cl) == IF cl = << >> THEN 0 ELSE Len(Head(cl)) + Places(Tail(cl))

\* the positions stored anywhere in the partition
Stored(cl) == UNION { Range(cl[c]) : c \in 1 .. Len(cl) }

Iota(n) == [k \in 1 .. n |-> k - 1]

ClusterMin(c) == CHOOSE m \in Range(c) : \A x \in Range(c) : m <= x

AfterMerge == pc \in {"micro", "merged", "writing", "done"}

\* C1: from the output of cluster_frames on, in every state of both passes
\* of merge_short_clusters and at its return, every position 0..n-1 is in
\* exactly one place of the partition and the partition holds nothing else.
PartitionComplete ==
    pc # "start" =>
        /\ Stored(clusters) = 0 .. Len(frames) - 1
        /\ Places(clusters) = Len(frames)

PartitionCompleteWitness ==
    /\ pc = "micro"
    /\ short_merges >= 1
    /\ micro_merges >= 1
    /\ Len(clusters) >= 1

\* C2: in the output of cluster_frames and in every state of
\* merge_short_clusters the clusters are ordered by their minimum and every
\* cluster lists min, min + 1, .., max in that order.
OrderPreserved ==
    pc # "start" =>
        /\ \A c \in 1 .. Len(clusters) :
               \A k \in 1 .. Len(clusters[c]) :
                   clusters[c][k] = clusters[c][1] + k - 1
        /\ \A c \in 1 .. Len(clusters) - 1 :
               clusters[c] # << >> /\ clusters[c + 1] # << >> =>
                   ClusterMin(clusters[c]) < ClusterMin(clusters[c + 1])

\* C3: once the short-cluster loop has exited, up to the return of
\* merge_short_clusters and after it, every cluster has at least min_len
\* positions unless the partition has at most one cluster.
MinLenGuarantee ==
    AfterMerge =>
        \/ Len(clusters) <= 1
        \/ \A c \in 1 .. Len(clusters) : Len(clusters[c]) >= min_len

MinLenGuaranteeWitness ==
    /\ pc = "merged"
    /\ short_merges >= 1
    /\ min_len >= 2
    /\ Len(clusters) >= 2

\* C4: on the frames of the crossfade test (clusters of 8, 3 and 8 frames
\* at threshold 8), merge_short_clusters with min_stable_seconds = 1.5 and
\* fps = 2.0 returns exactly two clusters.
TransitionAbsorbed ==
    ( /\ frames = CrossfadeFrames
      /\ threshold = TestThreshold
      /\ min_len = MinLen(TestHalfSeconds, TestFps)
      /\ pc = "merged" ) => Len(clusters) = 2

\* C5: the output of cluster_frames is a list of contiguous runs covering
\* 0..n-1 in order; every member of a run is within threshold of the run's
\* first frame, and the first frame of every later run is farther than
\* threshold from the first frame of the run before it; on the frames of
\* the clean-cut test at threshold 8 the runs are 0..4 and 5..9.
AnchorClustering ==
    pc = "clustered" =>
        /\ \A c \in 1 .. Len(clusters) : clusters[c] # << >>
        /\ \A c \in 1 .. Len(clusters) :
               \A k \in 1 .. Len(clusters[c]) :
                   /\ clusters[c][k] = clusters[c][1] + k - 1
                   /\ dist(frames[clusters[c][k] + 1],
                           frames[clusters[c][1] + 1]) <= threshold
        /\ Len(frames) > 0 => clusters[1][1] = 0
        /\ \A c \in 2 .. Len(clusters) :
               /\ clusters[c][1] = clusters[c - 1][Len(clusters[c - 1])] + 1
               /\ dist(frames[clusters[c][1] + 1],
                       frames[clusters[c - 1][1] + 1]) > threshold
        /\ Places(clusters) = Len(frames)
        /\ frames = CleanCutFrames /\ threshold = TestThreshold =>
               clusters = << <<0, 1, 2, 3, 4>>, <<5, 6, 7, 8, 9>> >>

\* a run holds a frame that is within threshold of the anchor but farther
\* than threshold from the frame before it
AnchorClusteringWitness ==
    /\ pc = "clustered"
    /\ Len(clusters) >= 2
    /\ \E c \in 1 .. Len(clusters) : \E k \in 2 .. Len(clusters[c]) :
           dist(frames[clusters[c][k] + 1], frames[clusters[c][k - 1] + 1]) > threshold

\* C6: a second micro-split sweep over the partition that the sweep has
\* left changes nothing.
MicroIdempotent ==
    pc = "merged" => MicroSweep(clusters, frames, threshold) = clusters

MicroIdempotentWitness ==
    /\ pc = "merged"
    /\ micro_merges >= 1
    /\ Len(clusters) >= 2

\* the short cluster at index i goes into the cluster before it
IntoPrevious ==
    /\ Len(clusters') = Len(clusters) - 1
    /\ i' = i - 1
    /\ Range(clusters'[i]) = Range(clusters[i]) \cup Range(clusters[i + 1])
    /\ \A j \in 1 .. Len(clusters') :
           j # i => clusters'[j] = IF j < i THEN clusters[j] ELSE clusters[j + 1]

\* the short cluster at index i goes into the cluster after it
IntoNext ==
    /\ Len(clusters') = Len(clusters) - 1
    /\ i' = i
    /\ Range(clusters'[i + 1]) = Range(clusters[i + 1]) \cup Range(clusters[i + 2])
    /\ \A j \in 1 .. Len(clusters') :
           j # i + 1 => clusters'[j] = IF j < i + 1 THEN clusters[j] ELSE clusters[j + 1]

\* C7: a step of the short-cluster scan at a cluster shorter than min_len
\* merges nothing when it is the only cluster, merges the first cluster
\* into the next, the last into the previous, and an interior cluster into
\* the previous when d_prev <= d_next and into the next when d_prev > d_next
\* (d_prev, d_next: the distances the scan computes from the list ends).
TargetSelection ==
    [][ ( /\ pc = "scan"
          /\ i < Len(clusters)
          /\ Len(clusters[i + 1]) < min_len )
        =>
        IF Len(clusters) = 1 THEN clusters' = clusters /\ i' = i + 1
        ELSE IF i = 0 THEN IntoNext
        ELSE IF i = Len(clusters) - 1 THEN IntoPrevious
        ELSE IF dist(frames[clusters[i + 1][1] + 1],
                     frames[clusters[i][Len(clusters[i])] + 1])
                <= dist(frames[clusters[i + 1][Len(clusters[i + 1])] + 1],
                        frames[clusters[i + 2][1] + 1])
             THEN IntoPrevious
             ELSE IntoNext ]_vars

\* the scan stands at a short interior cluster whose two distances tie
TargetSelectionWitness ==
    /\ pc = "scan"
    /\ 0 < i
    /\ i < Len(clusters) - 1
    /\ Len(clusters[i + 1]) < min_len
    /\ short_merges >= 1
    /\ dist(frames[clusters[i + 1][1] + 1],
            frames[clusters[i][Len(clusters[i])] + 1])
       = dist(frames[clusters[i + 1][Len(clusters[i + 1])] + 1],
              frames[clusters[i + 2][1] + 1])

Uniform ==
    /\ Len(frames) >= 1
    /\ \A p \in 1 .. Len(frames) : dist(frames[p], frames[1]) <= threshold

\* C8: when every frame is within threshold of frame 0, the partition is
\* the single cluster 0..n-1 from cluster_frames on, whatever min_len is,
\* and the writer picks one representative, position n div 2.
UniformSequence ==
    Uniform =>
        /\ pc # "start" => clusters = << Iota(Len(frames)) >>
        /\ pc \in {"writing", "done"} =>
               /\ Len(tasks) = 1
               /\ tasks[1].rep \in {None, Len(frames) \div 2}
               /\ \A e \in out_dir : e.rep = Len(frames) \div 2 /\ e.slide = 0
        /\ pc = "done" => tasks[1].rep = Len(frames) \div 2

UniformSequenceWitness ==
    /\ Uniform
    /\ min_len > Len(frames)
    /\ pc = "done"
    /\ result = "Ok"

\* C9: no step of cluster_frames and merge_short_clusters panics: no state
\* is the panic state, every cluster is non-empty, every stored position
\* indexes frames, and the scan pointers stay within the partition.
Totality ==
    /\ pc # "panic"
    /\ \A c \in 1 .. Len(clusters) : clusters[c] # << >>
    /\ PositionsInBounds(clusters, frames)
    /\ pc = "scan" => i \in 0 .. Len(clusters)
    /\ pc = "micro" => i \in 0 .. Len(clusters)
    /\ Len(frames) = 0 /\ pc # "start" => clusters = << >>

TotalityWitness ==
    /\ pc = "merged"
    /\ short_merges >= 2
    /\ micro_merges >= 1

\* C10: when write_output_slides has returned, the closure of every
\* non-empty cluster has run its copy (sibling writes are performed even
\* when one write failed), and every successful copy is the only artifact
\* at its output name.
SiblingWritesPerformed ==
    pc = "done" =>
        /\ \A k \in 1 .. Len(clusters) :
               clusters[k] # << >> => tasks[k].status \in {"ok", "err"}
        /\ \A k \in 1 .. Len(clusters) :
               tasks[k].status = "ok" =>
                   Cardinality({ e \in out_dir : e.name = OutName(k - 1) }) = 1

\* C11: a merge of the short-cluster pass removes the short cluster and
\* leaves the merged cluster in temporal order: the target's positions then
\* the short cluster's when the target is the previous cluster, the short
\* cluster's positions then the target's when the target is the next one.
SpliceDirection ==
    [][ ( /\ pc = "scan"
          /\ pc' = "scan"
          /\ Len(clusters') = Len(clusters) - 1 )
        =>
        IF i' = i - 1
        THEN clusters'[i] = clusters[i] \o clusters[i + 1]
        ELSE clusters'[i + 1] = clusters[i + 1] \o clusters[i + 2] ]_vars

\* the number of clusters that cluster_frames returned
InitialCount == Len(cluster_frames(frames, threshold))

\* a bound on the number of steps still to run, given the number of
\* clusters, the changed flag and the scan pointer of the first pass
ScanRank(count, flag, pointer) ==
    (2 * Len(frames) + 2)
    + (2 * Len(frames) + 4) * count
    + (IF flag THEN Len(frames) + 1 ELSE 0)
    + (Len(frames) - pointer)

Rank ==
    IF pc = "start" THEN ScanRank(Len(frames), FALSE, 0) + 2
    ELSE IF pc = "clustered" THEN ScanRank(Len(clusters), FALSE, 0) + 1
    ELSE IF pc = "scan" THEN ScanRank(Len(clusters), changed, i)
    ELSE IF pc = "micro" THEN 2 * Len(clusters) - i + 1
    ELSE 0

\* C12: merge_short_clusters terminates: every step lowers a natural-valued
\* bound, and a step can be taken until the return; every merge of either pass removes
\* exactly one cluster and no other step changes the partition, so at the
\* return the merges number k - (clusters left), at most k - 1 for k >= 1
\* initial clusters; the short-cluster loop is left at the end of a scan
\* exactly when that scan merged nothing.
Termination ==
    /\ [] ( /\ Rank >= 0
            /\ pc # "merged" => ENABLED Next
            /\ pc = "clustered" => short_merges + micro_merges = 0
            /\ pc = "merged" =>
                   /\ short_merges + micro_merges = InitialCount - Len(clusters)
                   /\ InitialCount >= 1 => short_merges + micro_merges <= InitialCount - 1 )
    /\ [][ /\ Rank' < Rank
           /\ (pc \in {"scan", "micro"} /\ clusters' # clusters) =>
                  /\ Len(clusters') = Len(clusters) - 1
                  /\ short_merges' + micro_merges' = short_merges + micro_merges + 1
           /\ (pc \in {"scan", "micro"} /\ clusters' = clusters) =>
                  short_merges' + micro_merges' = short_merges + micro_merges
           /\ (pc = "scan" /\ clusters' # clusters) => changed'
           /\ (pc = "scan" /\ changed /\ ~ changed') => i >= Len(clusters) /\ i' = 0 /\ pc' = "scan"
           /\ (pc = "scan" /\ i >= Len(clusters)) => (pc' = "micro" <=> ~ changed) ]_vars

TerminationWitness ==
    /\ pc = "merged"
    /\ scans = 2
    /\ short_merges >= 2
    /\ micro_merges >= 1
    /\ short_merges + micro_merges = InitialCount - 1

\* the median by position of a cluster
MedianPosition(c) == ClusterMin(c) + (Len(c) \div 2)

\* C13: the representative that the writer picks for a cluster is the
\* cluster's median by position, min(cluster) + floor(length / 2), and the
\* artifact of slide k is the representative of the k-th cluster.
MedianRepresentative ==
    pc \in {"writing", "done"} =>
        /\ \A k \in 1 .. Len(tasks) :
               tasks[k].rep # None => tasks[k].rep = MedianPosition(clusters[k])
        /\ \A e \in out_dir :
               /\ e.slide \in 0 .. Len(clusters) - 1
               /\ e.rep = MedianPosition(clusters[e.slide + 1])

ClusterMax(c) == CHOOSE p \in Range(c) : \A q \in Range(c) : q <= p

\* the distance between the temporally last frame of cluster k and the
\* temporally first frame of cluster k + 1 (0-based k)
TouchingDistance(k) ==
    dist(Hash(frames, ClusterMax(clusters[k + 1])), Hash(frames, ClusterMin(clusters[k + 2])))

Touching(k) == ClusterMin(clusters[k + 2]) = ClusterMax(clusters[k + 1]) + 1

\* C14: every distance merge_short_clusters computes between adjacent
\* clusters (d_prev and d_next for an interior short cluster, d in the
\* micro-split sweep) is the distance between the temporally last frame of the
\* left cluster and the temporally first frame of the right one, and these are
\* consecutive positions of the input.
TouchingFrames ==
    /\ ( /\ pc = "scan"
         /\ 0 < i
         /\ i < Len(clusters) - 1
         /\ IsShort(clusters[i + 1], min_len) ) =>
           /\ Touching(i - 1)
           /\ Touching(i)
           /\ d_prev(clusters, frames, i) = TouchingDistance(i - 1)
           /\ d_next(clusters, frames, i) = TouchingDistance(i)
    /\ ( /\ pc = "micro"
         /\ i + 1 < Len(clusters) ) =>
           /\ Touching(i)
           /\ MicroClose(clusters, frames, threshold, i) <=> TouchingDistance(i) <= threshold \div 2

\* the clusters at indices below the scan pointer
BelowPointer == 1 .. (IF i < Len(clusters) THEN i ELSE Len(clusters))

SecondScanIdle ==
    /\ scans <= 2
    /\ (pc = "scan" /\ scans = 2) => ~ changed

Boundaries(cl, n) == { ClusterMin(cl[k]) : k \in 1 .. Len(cl) } \cup {n}

\* c holds exactly the positions of one or more consecutive clusters of the
\* partition whose boundaries are bs
UnionOfConsecutive(c, bs) ==
    /\ c # << >>
    /\ Range(c) = ClusterMin(c) .. ClusterMax(c)
    /\ Len(c) = ClusterMax(c) - ClusterMin(c) + 1
    /\ ClusterMin(c) \in bs
    /\ ClusterMax(c) + 1 \in bs

\* the partition after the step is the one before it, or the one before it
\* with two adjacent clusters united
StepKeepsBoundaries ==
    \/ clusters' = clusters
    \/ /\ Len(clusters') = Len(clusters) - 1
       /\ \E k \in 1 .. Len(clusters) - 1 :
              \A j \in 1 .. Len(clusters') :
                  Range(clusters'[j]) =
                      IF j < k THEN Range(clusters[j])
                      ELSE IF j = k THEN Range(clusters[k]) \cup Range(clusters[k + 1])
                      ELSE Range(clusters[j + 1])

\* C16: merge_short_clusters never splits or reshuffles frames across
\* clusters: it starts from the cluster_frames output, every step leaves the
\* partition alone or unites two adjacent clusters (so the number of clusters
\* never increases and each cluster always holds the positions of consecutive
\* clusters of the cluster_frames output), and at the return each cluster holds
\* exactly the positions of one or more consecutive clusters of the
\* cluster_frames output and every boundary is one cluster_frames produced.
BoundariesOnlyDisappear ==
    /\ [] ( /\ pc = "clustered" => clusters = cluster_frames(frames, threshold)
            /\ pc = "merged" =>
                  LET bs == Boundaries(cluster_frames(frames, threshold), Len(frames))
                  IN  /\ \A k \in 1 .. Len(clusters) : UnionOfConsecutive(clusters[k], bs)
                      /\ Boundaries(clusters, Len(frames)) \subseteq bs )
    /\ [][ (pc \in {"clustered", "scan", "micro"}) => StepKeepsBoundaries ]_vars

BoundariesOnlyDisappearWitness ==
    /\ pc = "merged"
    /\ InitialCount = 4
    /\ Len(clusters) = 2
    /\ Len(clusters[1]) = 2
    /\ micro_merges = 0
====
